---- MODULE Spec2Model ----
(***************************************************************************)
(* A model of src/lib.rs: `Multilist`, an intrusive set of doubly-linked   *)
(* lists sharing one pool of heap-allocated elements.                      *)
(*                                                                         *)
(* Storage is a map from addresses to element holders.  A holder is either *)
(* allocated (it carries a value, its back-reference and one (next, prev)  *)
(* pair per list) or not.  Dereferencing an address whose holder is not    *)
(* allocated is undefined behaviour: the operation ends with res = "ub"    *)
(* at the faulting access, and the program stops there, since nothing can  *)
(* be said of what follows.  A failed assert!/debug_assert! ends the       *)
(* operation with res = "panic"; the program stops there too.              *)
(*                                                                         *)
(* debug_assert! is checked only in builds with debug assertions, so the   *)
(* build is part of the initial state.                                     *)
(*                                                                         *)
(* The byte layout of a holder (MultilistElementHolder::size and the       *)
(* initialisation loop of MultilistElement::new) is below this model: a    *)
(* holder is a record with one link pair per list, each written as         *)
(* MultilistPointers::new().                                               *)
(***************************************************************************)
EXTENDS Integers, Sequences, FiniteSets, TLC

\* Number of push_back calls a run of the caller makes.
MaxPushes == 3

\* Number of calls (push_back, push_back_existing, remove_existing, pop_back)
\* a run of the caller makes before it drops the container or stops.
MaxCalls == 5

\* main() makes four push_back calls.  There are as many addresses, so
\* heap::allocate always finds one (alloc::oom is not reached).
MainPushes == 4

\* The largest list_count a container is created with.
MaxLists == 2

\* main(): TASK_LIST, RUN_LIST
TASK_LIST == 0
RUN_LIST == 1

\* ptr::null_mut()
NULL == 0

Addr == 1..(IF MaxPushes > MainPushes THEN MaxPushes ELSE MainPushes)

\* The value of the k-th push_back of a run: main() inserts pids 1, 3, 5, 7.
\* The container never inspects a value, so a run with other values is this
\* run with the values renamed.
Pid(k) == 2 * k - 1

\* Option<Value>
None == <<>>
Some(v) == <<v>>

\* The one container; `self as *const _`.
Self == "multilist"

\* A second container the caller also holds, of one list, and the address of
\* its one element: a handle from it fails `associated_multilist == self`.
Other == "other"
Foreign == Cardinality(Addr) + 1

VARIABLES pointers, heap, debug_assertions, phase, status, last, handles, pushes, calls, dropIdx, dropMembers, onlyPush, pushed, mainPc, asMain, otherPointers, detached

vars == <<pointers, heap, debug_assertions, phase, status, last, handles, pushes, calls, dropIdx, dropMembers, onlyPush, pushed, mainPc, asMain, otherPointers, detached>>

\* MultilistPointers::new()
NewPointers == [next |-> NULL, prev |-> NULL]

\* MultilistListPointers::new()
NewListPointers == [head |-> NULL, tail |-> NULL]

\* Multilist::list_count
list_count(lp) == Cardinality(DOMAIN lp)

\* Storage that is not allocated (never handed out, or deallocated).
Freed == [alloc |-> FALSE, value |-> 0, associated_multilist |-> "none", pointers |-> <<>>]

\* MultilistElement::new: the holder written for a brand-new value in a
\* container of n lists, one link pair per list, each MultilistPointers::new().
NewHolder(v, n) == [alloc |-> TRUE, value |-> v, associated_multilist |-> Self, pointers |-> [l \in 0..(n - 1) |-> NewPointers]]

\* The holder of the other container's element, the sole member of its list.
ForeignHolder == [alloc |-> TRUE, value |-> 0, associated_multilist |-> Other, pointers |-> [l \in {0} |-> NewPointers]]

\* Results of an operation: the list table and heap it leaves, how it ended,
\* and what it returned.
Ok(lp, h) == [pointers |-> lp, heap |-> h, res |-> "ok", ret |-> None]
Panic(lp, h) == [pointers |-> lp, heap |-> h, res |-> "panic", ret |-> None]
UB(lp, h) == [pointers |-> lp, heap |-> h, res |-> "ub", ret |-> None]

\* Multilist::is_empty
is_empty(lp, i) == lp[i].head = NULL

\* MultilistElement::is_in_list
is_in_list(h, e, i) == h[e].pointers[i].next # NULL \/ h[e].pointers[i].prev # NULL

\* MultilistIterator::next, repeated until it returns None; `fuel` bounds the
\* walk so that a cyclic chain yields a sequence longer than the heap.  The
\* walk stops after yielding an element whose storage is not allocated.
RECURSIVE Walk(_, _, _, _)
Walk(h, i, cur, fuel) ==
    IF cur = NULL \/ fuel = 0 THEN <<>>
    ELSE IF ~h[cur].alloc THEN <<cur>>
    ELSE <<cur>> \o Walk(h, i, h[cur].pointers[i].next, fuel - 1)

\* Multilist::iter followed by the whole walk: the elements of list i in order.
Iter(lp, h, i) == Walk(h, i, lp[i].head, Cardinality(Addr) + 1)

\* The values the iteration dereferences to (Deref for MultilistElement).
IterValues(lp, h, i) == [k \in 1..Len(Iter(lp, h, i)) |-> h[Iter(lp, h, i)[k]].value]

Range(s) == {s[k] : k \in 1..Len(s)}

\* Membership as the claims define it: e appears when following next links
\* from list i's head.
Member(lp, h, e, i) == e \in Range(Iter(lp, h, i))

\* LinkAfterTail without line 88: the old tail's next is not set.
LinkAfterTail_PrevOnly(h, i, t, e) == [h EXCEPT ![e].pointers[i].prev = t]

\* lines 88-89: link the element after the current tail t.
LinkAfterTail(h, i, t, e) ==
    LET h1 == [h EXCEPT ![t].pointers[i].next = e]
    IN  [h1 EXCEPT ![e].pointers[i].prev = t]

\* Multilist::push_back_existing
push_back_existing(lp, h, dbg, i, e) ==
    IF ~h[e].alloc THEN UB(lp, h)
    ELSE IF h[e].associated_multilist # Self THEN Panic(lp, h)
    ELSE IF h[e].pointers[i].next # NULL THEN Panic(lp, h)
    ELSE IF dbg /\ h[e].pointers[i].prev # NULL THEN Panic(lp, h)
    ELSE IF lp[i].tail = NULL
         THEN Ok([lp EXCEPT ![i] = [head |-> e, tail |-> e]], h)
    ELSE IF ~h[lp[i].tail].alloc THEN UB(lp, h)
    ELSE Ok([lp EXCEPT ![i].tail = e], LinkAfterTail(h, i, lp[i].tail, e))

\* Multilist::push_back; a is the address heap::allocate returns.
push_back(lp, h, dbg, i, v, a) == push_back_existing(lp, [h EXCEPT ![a] = NewHolder(v, list_count(lp))], dbg, i, a)

\* UnlinkNext writing the next element's pair of list 0 instead of list i's.
UnlinkNext_FirstList(lp, h, i, e) ==
    LET next == h[e].pointers[i].next
    IN  IF next = NULL
        THEN IF lp[i].tail # e THEN Panic(lp, h)
             ELSE Ok([lp EXCEPT ![i].tail = NULL], h)
        ELSE IF ~h[next].alloc THEN UB(lp, h)
        ELSE Ok(lp, [h EXCEPT ![next].pointers[0].prev = h[e].pointers[i].prev])

\* UnlinkNext with line 109 ahead of line 107: tail is cleared, then checked.
UnlinkNext_ClearThenAssert(lp, h, i, e) ==
    LET next == h[e].pointers[i].next
    IN  IF next = NULL
        THEN IF lp[i].tail # e THEN Panic([lp EXCEPT ![i].tail = NULL], h)
             ELSE Ok([lp EXCEPT ![i].tail = NULL], h)
        ELSE IF ~h[next].alloc THEN UB(lp, h)
        ELSE Ok(lp, [h EXCEPT ![next].pointers[i].prev = h[e].pointers[i].prev])

\* lines 105-112 of remove_existing: the element's next side.
UnlinkNext(lp, h, i, e) ==
    LET next == h[e].pointers[i].next
    IN  IF next = NULL
        THEN IF lp[i].tail # e THEN Panic(lp, h)
             ELSE Ok([lp EXCEPT ![i].tail = NULL], h)
        ELSE IF ~h[next].alloc THEN UB(lp, h)
        ELSE Ok(lp, [h EXCEPT ![next].pointers[i].prev = h[e].pointers[i].prev])

\* UnlinkPrev without line 116: the previous element's next is not set.
UnlinkPrev_KeepsNext(lp, h, i, e) ==
    LET prev == h[e].pointers[i].prev
    IN  IF prev = NULL
        THEN Ok([lp EXCEPT ![i].head = h[e].pointers[i].next], h)
        ELSE IF ~h[prev].alloc THEN UB(lp, h)
        ELSE Ok(lp, h)

\* lines 113-117 of remove_existing: the element's prev side.
UnlinkPrev(lp, h, i, e) ==
    LET prev == h[e].pointers[i].prev
    IN  IF prev = NULL
        THEN Ok([lp EXCEPT ![i].head = h[e].pointers[i].next], h)
        ELSE IF ~h[prev].alloc THEN UB(lp, h)
        ELSE Ok(lp, [h EXCEPT ![prev].pointers[i].next = h[e].pointers[i].next])

\* Multilist::remove_existing
remove_existing(lp, h, i, e) ==
    IF ~h[e].alloc THEN UB(lp, h)
    ELSE IF h[e].associated_multilist # Self THEN Panic(lp, h)
    ELSE LET s1 == UnlinkNext(lp, h, i, e)
         IN  IF s1.res # "ok" THEN s1
             ELSE UnlinkPrev(s1.pointers, s1.heap, i, e)

\* MultilistElement::destroy
destroy(h, e) == [h EXCEPT ![e] = Freed]

\* lines 134-138 of pop_back: `for i in range(0, self.list_count())`, from j on.
RECURSIVE PopLoop(_, _, _, _)
PopLoop(lp, h, e, j) ==
    IF j = list_count(lp) THEN Ok(lp, h)
    ELSE IF ~h[e].alloc THEN UB(lp, h)
    ELSE IF is_in_list(h, e, j)
         THEN LET st == remove_existing(lp, h, j, e)
              IN  IF st.res # "ok" THEN st
                  ELSE PopLoop(st.pointers, st.heap, e, j + 1)
    ELSE PopLoop(lp, h, e, j + 1)

\* Multilist::pop_back
pop_back(lp, h, i) ==
    LET tail == lp[i].tail
    IN  IF tail = NULL THEN Ok(lp, h)
        ELSE LET st == PopLoop(lp, h, tail, 0)
             IN  IF st.res # "ok" THEN st
                 ELSE [pointers |-> st.pointers, heap |-> destroy(st.heap, tail), res |-> "ok", ret |-> Some(st.heap[tail].value)]

(***************************************************************************)
(* The allocator and the caller.                                           *)
(***************************************************************************)

\* Some list-table entry or some allocated holder's link holds address a.
Referenced(lp, h, a) ==
    \E i \in DOMAIN lp :
        \/ lp[i].head = a
        \/ lp[i].tail = a
        \/ \E b \in Addr : h[b].alloc /\ (h[b].pointers[i].next = a \/ h[b].pointers[i].prev = a)

Lowest(S) == CHOOSE a \in S : \A b \in S : a <= b

\* heap::allocate returns any address that is not allocated.  Unallocated
\* addresses nothing refers to are interchangeable: the lowest stands for them.
AllocChoices(lp, h) ==
    LET free == {a \in Addr : ~h[a].alloc}
        stale == {a \in free : Referenced(lp, h, a)}
    IN  stale \cup (IF free \ stale = {} THEN {} ELSE {Lowest(free \ stale)})

\* The handles a caller can obtain by iterating every list (lines 147-154,
\* 315-328): the allocated elements on some list's chain.
Reachable(lp, h) == {a \in Addr : h[a].alloc /\ \E i \in DOMAIN lp : Member(lp, h, a, i)}

StatusOf(st) == IF st.res = "panic" THEN "panicked" ELSE st.res

\* What every call leaves behind: the operation's result st becomes the state.
\* v is the value of a push_back.
Commit(op, i, e, v, st) ==
    /\ pointers' = st.pointers
    /\ heap' = st.heap
    /\ status' = StatusOf(st)
    /\ last' = [op |-> op, list |-> i, elem |-> e, ret |-> st.ret]
    /\ handles' = (IF op = "pop_back" THEN {} ELSE handles) \cup Reachable(st.pointers, st.heap)
    /\ pushes' = IF op = "push_back" THEN pushes + 1 ELSE pushes
    /\ calls' = calls + 1
    /\ onlyPush' = (onlyPush /\ op = "push_back")
    /\ pushed' = IF onlyPush /\ op = "push_back"
                 THEN [pushed EXCEPT ![i] = Append(@, v)]
                 ELSE [l \in DOMAIN pointers |-> <<>>]
    /\ detached' = IF st.res # "ok" THEN detached
                   ELSE IF op = "remove_existing" /\ Member(pointers, heap, e, i) /\ e \notin Reachable(st.pointers, st.heap)
                        THEN detached \cup {e}
                   ELSE IF op \in {"push_back", "push_back_existing"} THEN detached \ {e}
                   ELSE detached
    /\ UNCHANGED <<debug_assertions, otherPointers>>

Running == phase = "run" /\ status = "ok"

\* The caller is arbitrary code holding the container, not main().
Caller == Running /\ mainPc = -1 /\ calls < MaxCalls

\* The lists of the container.
Lists == DOMAIN pointers

\* Multilist::new(n), compiled with or without debug assertions.
New(n) ==
    /\ pointers = [i \in 0..(n - 1) |-> NewListPointers]
    /\ heap = [a \in Addr \cup {Foreign} |-> IF a = Foreign THEN ForeignHolder ELSE Freed]
    /\ otherPointers = [l \in {0} |-> [head |-> Foreign, tail |-> Foreign]]
    /\ detached = {}
    /\ debug_assertions \in BOOLEAN
    /\ phase = "run"
    /\ status = "ok"
    /\ last = [op |-> "new", list |-> 0, elem |-> NULL, ret |-> None]
    /\ handles = {}
    /\ pushes = 0
    /\ calls = 0
    /\ dropIdx = 0
    /\ dropMembers = {}
    /\ onlyPush = TRUE
    /\ pushed = [l \in 0..(n - 1) |-> <<>>]

\* new() has no check on list_count (lines 46-53): Multilist::new(0) returns a
\* container with an empty list table.
Init == (\E n \in 0..MaxLists : New(n)) /\ mainPc = -1 /\ asMain = FALSE

PushBack(i) ==
    /\ Caller
    /\ pushes < MaxPushes
    /\ \E a \in AllocChoices(pointers, heap) :
           Commit("push_back", i, a, Pid(pushes + 1), push_back(pointers, heap, debug_assertions, i, Pid(pushes + 1), a))
    /\ UNCHANGED <<phase, dropIdx, dropMembers, mainPc, asMain>>

PushBackExisting(i, e) ==
    /\ Caller
    /\ e \in handles \cup {Foreign}
    /\ Commit("push_back_existing", i, e, 0, push_back_existing(pointers, heap, debug_assertions, i, e))
    /\ UNCHANGED <<phase, dropIdx, dropMembers, mainPc, asMain>>

RemoveExisting(i, e) ==
    /\ Caller
    /\ e \in handles \cup {Foreign}
    /\ Commit("remove_existing", i, e, 0, remove_existing(pointers, heap, i, e))
    /\ UNCHANGED <<phase, dropIdx, dropMembers, mainPc, asMain>>

PopBack(i) ==
    /\ Caller
    /\ Commit("pop_back", i, pointers[i].tail, 0, pop_back(pointers, heap, i))
    /\ UNCHANGED <<phase, dropIdx, dropMembers, mainPc, asMain>>

\* Drop for Multilist: the container goes out of scope (in main(), at return).
DropStart ==
    /\ Running
    /\ mainPc \in {-1, 9}
    /\ phase' = "dropping"
    /\ dropIdx' = 0
    /\ dropMembers' = Reachable(pointers, heap)
    /\ last' = [op |-> "drop", list |-> 0, elem |-> NULL, ret |-> None]
    /\ onlyPush' = FALSE
    /\ pushed' = [l \in Lists |-> <<>>]
    /\ handles' = {}
    /\ UNCHANGED <<pointers, heap, debug_assertions, status, pushes, calls, mainPc, asMain, otherPointers, detached>>

\* One evaluation of `self.pop_back(i).is_some()` in the drain loop.
DropPop ==
    /\ phase = "dropping" /\ status = "ok"
    /\ dropIdx < list_count(pointers)
    /\ LET st == pop_back(pointers, heap, dropIdx)
       IN  /\ Commit("pop_back", dropIdx, pointers[dropIdx].tail, 0, st)
           /\ dropIdx' = IF st.res = "ok" /\ st.ret = None THEN dropIdx + 1 ELSE dropIdx
    /\ UNCHANGED <<phase, dropMembers, mainPc, asMain>>

\* The range is exhausted: drop returns.
DropDone ==
    /\ phase = "dropping" /\ status = "ok"
    /\ dropIdx = list_count(pointers)
    /\ phase' = "dropped"
    /\ UNCHANGED <<pointers, heap, debug_assertions, status, last, handles, pushes, calls, dropIdx, dropMembers, onlyPush, pushed, mainPc, asMain, otherPointers, detached>>

Next ==
    \/ \E i \in Lists : PushBack(i)
    \/ \E i \in Lists, e \in Addr \cup {Foreign} : PushBackExisting(i, e)
    \/ \E i \in Lists, e \in Addr \cup {Foreign} : RemoveExisting(i, e)
    \/ \E i \in Lists : PopBack(i)
    \/ DropStart
    \/ DropPop
    \/ DropDone

Spec == Init /\ [][Next]_vars

(***************************************************************************)
(* main(), lines 334-393: the example program.  mainPc counts the calls    *)
(* made.  The argument k of each `iter(TASK_LIST).skip(k).next().unwrap()` *)
(* is drawn from 0..2; asMain records that every k so far is the one       *)
(* main() passes.                                                          *)
(***************************************************************************)

\* The skip() arguments of the calls made at mainPc = 3, 4, 5 (lines 360-362)
\* and 6 (line 366).
MainSkip == [p \in 3..6 |-> CASE p = 3 -> 2 [] p = 4 -> 0 [] p = 5 -> 1 [] p = 6 -> 1]

Skips == 0..2

AtMain(pcs) == Running /\ mainPc \in pcs /\ mainPc' = mainPc + 1

\* iter(TASK_LIST).skip(k).next(): the element at position k of the task
\* list, or NULL for None, on which unwrap() panics.
TaskAt(k) ==
    LET task == Iter(pointers, heap, TASK_LIST)
    IN  IF k + 1 > Len(task) THEN NULL ELSE task[k + 1]

\* lines 345-356 and 370-373
MainPushBack ==
    /\ AtMain({0, 1, 2, 7})
    /\ \E a \in AllocChoices(pointers, heap) :
           Commit("push_back", TASK_LIST, a, Pid(pushes + 1), push_back(pointers, heap, debug_assertions, TASK_LIST, Pid(pushes + 1), a))
    /\ UNCHANGED <<phase, dropIdx, dropMembers, asMain>>

\* lines 360-362
MainPushBackExisting(k) ==
    /\ AtMain({3, 4, 5})
    /\ LET e == TaskAt(k)
       IN  Commit("push_back_existing", RUN_LIST, e, 0,
                  IF e = NULL THEN Panic(pointers, heap)
                  ELSE push_back_existing(pointers, heap, debug_assertions, RUN_LIST, e))
    /\ asMain' = (asMain /\ k = MainSkip[mainPc])
    /\ UNCHANGED <<phase, dropIdx, dropMembers>>

\* line 366
MainRemoveExisting(k) ==
    /\ AtMain({6})
    /\ LET e == TaskAt(k)
       IN  Commit("remove_existing", TASK_LIST, e, 0,
                  IF e = NULL THEN Panic(pointers, heap)
                  ELSE remove_existing(pointers, heap, TASK_LIST, e))
    /\ asMain' = (asMain /\ k = MainSkip[mainPc])
    /\ UNCHANGED <<phase, dropIdx, dropMembers>>

\* line 377
MainPopBack ==
    /\ AtMain({8})
    /\ Commit("pop_back", RUN_LIST, pointers[RUN_LIST].tail, 0, pop_back(pointers, heap, RUN_LIST))
    /\ UNCHANGED <<phase, dropIdx, dropMembers, asMain>>

\* line 344
MainInit == New(2) /\ mainPc = 0 /\ asMain = TRUE

MainNext ==
    \/ MainPushBack
    \/ \E k \in Skips : MainPushBackExisting(k)
    \/ \E k \in Skips : MainRemoveExisting(k)
    \/ MainPopBack
    \/ DropStart
    \/ DropPop
    \/ DropDone

MainSpec == MainInit /\ [][MainNext]_vars

TypeOK ==
    /\ pointers \in [Lists -> [head : Addr \cup {NULL}, tail : Addr \cup {NULL}]]
    /\ \A a \in Addr : heap[a].alloc => heap[a].pointers \in [Lists -> [next : Addr \cup {NULL}, prev : Addr \cup {NULL}]]
    /\ phase \in {"run", "dropping", "dropped"}
    /\ status \in {"ok", "panicked", "ub"}
    /\ handles \subseteq {a \in Addr : heap[a].alloc}
    /\ mainPc \in -1..9
    /\ heap[Foreign] = ForeignHolder
    /\ otherPointers = [l \in {0} |-> [head |-> Foreign, tail |-> Foreign]]

(***************************************************************************)
(* The claims.  A step of a call is recognised by last', which every call  *)
(* sets: last'.op names it, last'.list and last'.elem are its arguments    *)
(* (for pop_back, elem is the tail it found) and last'.ret its result.     *)
(***************************************************************************)

Without(s, e) == SelectSeq(s, LAMBDA x : x # e)

\* C1: when pop_back(i) returns Some(v) for an element e that is a member of
\* at least one list, then after the call e is in no list's iteration and
\* every list's iteration is its previous iteration with e removed.
C1_PopBackRemovesFromEveryList ==
    [][(/\ last'.op = "pop_back"
        /\ status' = "ok"
        /\ last'.ret # None
        /\ \E j \in Lists : Member(pointers, heap, last'.elem, j))
       => \A j \in Lists :
              /\ ~Member(pointers', heap', last'.elem, j)
              /\ Iter(pointers', heap', j) = Without(Iter(pointers, heap, j), last'.elem)]_vars

\* C2: teardown frees every element that is a member of some list exactly
\* once: the drain loop never touches freed storage (which it would free a
\* second time) or fails, and when it returns no such element is allocated.
C2_TeardownFreesEachMemberOnce ==
    phase # "run" =>
        /\ status = "ok"
        /\ phase = "dropped" => \A a \in dropMembers : ~heap[a].alloc

\* C3: no list's head or tail, and no next or prev field of an element on a
\* list's chain, refers to storage that pop_back has freed.
C3_NoReferenceToFreedStorage ==
    \A i \in Lists :
        /\ pointers[i].head # NULL => heap[pointers[i].head].alloc
        /\ pointers[i].tail # NULL => heap[pointers[i].tail].alloc
        /\ \A e \in Range(Iter(pointers, heap, i)) :
               /\ heap[e].alloc
               /\ heap[e].pointers[i].next # NULL => heap[heap[e].pointers[i].next].alloc
               /\ heap[e].pointers[i].prev # NULL => heap[heap[e].pointers[i].prev].alloc

\* C4: push_back_existing(i, e) on an element that is already a member of
\* list i fails its assertion and links nothing.
C4_AttachingAMemberFails ==
    [][(/\ last'.op = "push_back_existing"
        /\ last'.elem # NULL
        /\ Member(pointers, heap, last'.elem, last'.list))
       => /\ status' = "panicked"
          /\ pointers' = pointers
          /\ heap' = heap]_vars

\* C5: remove_existing(i, e) leaves the head and tail of every other list j
\* and the list-j link pair of every element as they were, so the iteration
\* of every list j # i is unchanged.
C5_RemoveExistingTouchesOnlyItsList ==
    [][last'.op = "remove_existing"
       => \A j \in Lists \ {last'.list} :
              /\ pointers'[j] = pointers[j]
              /\ \A a \in Addr : heap[a].alloc =>
                     /\ heap'[a].alloc
                     /\ heap'[a].pointers[j] = heap[a].pointers[j]
              /\ Iter(pointers', heap', j) = Iter(pointers, heap, j)]_vars

\* C5's case: remove_existing has detached an element from one list and the
\* element is still on another list's chain.
C5_Witness ==
    /\ last.op = "remove_existing"
    /\ status = "ok"
    /\ last.elem # NULL
    /\ \E j \in Lists \ {last.list} :
           /\ Member(pointers, heap, last.elem, j)
           /\ Len(Iter(pointers, heap, j)) >= 2

\* List i's chain ends and every element on it is allocated.
WellFormed(lp, h, i) ==
    /\ Len(Iter(lp, h, i)) <= Cardinality(Addr)
    /\ \A e \in Range(Iter(lp, h, i)) : h[e].alloc

\* C6: a push_back(i, v), or a push_back_existing(i, e) of an element that is
\* not yet a member of list i, whose assertions pass leaves list i's
\* iteration equal to its previous iteration followed by the element (here
\* for a list i whose iteration before the call is finite and free of
\* dangling elements).
C6_TailAppendKeepsOrder ==
    [][(/\ last'.op \in {"push_back", "push_back_existing"}
        /\ status' = "ok"
        /\ WellFormed(pointers, heap, last'.list)
        /\ ~Member(pointers, heap, last'.elem, last'.list))
       => Iter(pointers', heap', last'.list)
              = Append(Iter(pointers, heap, last'.list), last'.elem)]_vars

C8_IsInListIffMember ==
    (phase = "run" /\ status = "ok") =>
        \A e \in handles : \A i \in Lists :
            is_in_list(heap, e, i) <=> Member(pointers, heap, e, i)

C10_PopBackReturnsLast ==
    [][(last'.op = "pop_back" /\ status' = "ok")
       => LET it == Iter(pointers, heap, last'.list)
          IN  /\ last'.ret = None <=> is_empty(pointers, last'.list)
              /\ last'.ret = None <=> it = <<>>
              /\ it # <<>> => last'.ret = Some(heap[it[Len(it)]].value)]_vars

\* C11: Multilist::new(0) fails at construction and never returns a
\* container: no container with an empty list table ever exists.
C11_ZeroListsNeverConstructed == list_count(pointers) > 0

\* C12: for every list i, head is null exactly when tail is null exactly when
\* list i has no members, and when list i has members tail is the last
\* element reached by following next from head.
C12_ListTableInvariant ==
    status = "ok" =>
        \A i \in Lists :
            LET it == Iter(pointers, heap, i)
            IN  /\ pointers[i].head = NULL <=> pointers[i].tail = NULL
                /\ pointers[i].head = NULL <=> it = <<>>
                /\ it # <<>> => pointers[i].tail = it[Len(it)]

\* C13: remove_existing(i, e) on an element e that appears in list i's
\* iteration (as head, middle, tail or sole member) passes its assertions
\* and leaves list i's iteration equal to the previous one with e removed
\* (here for a list i whose iteration before the call is finite and free of
\* dangling elements).
C13_RemoveExistingOfMemberSucceeds ==
    [][(/\ last'.op = "remove_existing"
        /\ WellFormed(pointers, heap, last'.list)
        /\ Member(pointers, heap, last'.elem, last'.list))
       => /\ status' = "ok"
          /\ Iter(pointers', heap', last'.list)
                 = Without(Iter(pointers, heap, last'.list), last'.elem)]_vars

\* C14: remove_existing(i, e) on a live element e of this container that is
\* not in list i's iteration fails an assertion and leaves list i's head and
\* tail and every element's list-i link pair as they were.
C14_RemoveExistingOfNonMemberFails ==
    [][(/\ last'.op = "remove_existing"
        /\ last'.elem # NULL
        /\ heap[last'.elem].alloc
        /\ heap[last'.elem].associated_multilist = Self
        /\ WellFormed(pointers, heap, last'.list)
        /\ ~Member(pointers, heap, last'.elem, last'.list))
       => /\ status' = "panicked"
          /\ pointers'[last'.list] = pointers[last'.list]
          /\ \A a \in Addr : heap[a].alloc =>
                 heap'[a].pointers[last'.list] = heap[a].pointers[last'.list]]_vars

\* C15: when push_back_existing or remove_existing fails an assertion (a
\* handle of another container, an element already linked, a tail that is
\* not the element), it has written nothing: every head and tail and every
\* element's link pairs, in this container and in the handle's own, are as
\* they were before the call.
C15_FailedAssertionWritesNothing ==
    [][(last'.op \in {"push_back_existing", "remove_existing"} /\ status' = "panicked")
       => /\ pointers' = pointers
          /\ heap' = heap
          /\ otherPointers' = otherPointers]_vars

\* C15's case: a call given the other container's element has panicked.
C15_Witness ==
    /\ status = "panicked"
    /\ last.op \in {"push_back_existing", "remove_existing"}
    /\ last.elem = Foreign
    /\ \E i \in Lists : Len(Iter(pointers, heap, i)) = 2

\* The elements whose storage is allocated to this container.
Live(h) == {a \in Addr : h[a].alloc}

\* C16: teardown terminates from every reachable state.  Every successful
\* pop_back of the drain loop frees one live element, so the loop makes at
\* most as many of them as there are live elements; the loop never stops in
\* a failed assertion or an access to freed storage; and when it has
\* finished every list is empty.
C16_TeardownTerminates ==
    /\ [][(phase = "dropping" /\ last'.op = "pop_back" /\ last'.ret # None)
          => Cardinality(Live(heap')) < Cardinality(Live(heap))]_vars
    /\ [](phase = "dropping" => status = "ok")
    /\ [](phase = "dropped" => \A i \in Lists : is_empty(pointers, i) /\ Iter(pointers, heap, i) = <<>>)

\* C17: iteration terminates: in every state the chain followed by next from
\* each list's head reaches null without visiting an element twice.
C17_ChainsAreAcyclic ==
    \A i \in Lists :
        LET it == Iter(pointers, heap, i)
        IN  /\ Len(it) <= Cardinality(Addr)
            /\ \A j, k \in 1..Len(it) : it[j] = it[k] => j = k

\* C18: pop_back is the only operation that frees storage:
\* push_back_existing and remove_existing leave the set of allocated
\* elements as it was, and an element that remove_existing detached from the
\* last list it was on stays allocated and on no list's chain, through every
\* later call and teardown, until the caller attaches it again.
C18_OnlyPopBackFrees ==
    /\ [][last'.op \in {"push_back_existing", "remove_existing"} => Live(heap') = Live(heap)]_vars
    /\ [](\A e \in detached : heap[e].alloc /\ e \notin Reachable(pointers, heap))

\* C19: after remove_existing(i, e) returns, e's own next and prev for list i
\* are both null, so that for an element still on another list a following
\* push_back_existing(i, e) passes its assertions and makes e the last
\* element of list i again.
C19_RemoveExistingClearsOwnLinks ==
    [][(last'.op = "remove_existing" /\ status' = "ok")
       => heap'[last'.elem].pointers[last'.list] = NewPointers]_vars

\* C20: every list i is consistently doubly linked: the prev of its head is
\* null; an element on its chain whose next is f is the prev of f; and
\* every live element that is not on its chain has list-i next and prev
\* both null.
C20_DoublyLinkedConsistency ==
    status = "ok" =>
        \A i \in Lists :
            /\ WellFormed(pointers, heap, i) =>
                   /\ pointers[i].head # NULL => heap[pointers[i].head].pointers[i].prev = NULL
                   /\ \A e \in Range(Iter(pointers, heap, i)) :
                          LET f == heap[e].pointers[i].next
                          IN  (f # NULL /\ heap[f].alloc) => heap[f].pointers[i].prev = e
            /\ \A e \in Live(heap) :
                   ~Member(pointers, heap, e, i) => heap[e].pointers[i] = NewPointers
====
